---- MODULE Spec2Model ----
(***************************************************************************)
(* Model of the instrumentation core of baseplate.go:                      *)
(*   - tracing/middlewares.go   InjectHTTPServerSpan(WithTracer)           *)
(*   - metricsbp (part_000)     BaseplateHook / SpanHook                   *)
(*   - integrations/redis.go    RedisSpanHook, MonitoredRedisFactory       *)
(*   - redisbp/monitored_client.go  MonitoredCmdableFactory                *)
(*   - thriftbp (part_001)      Wrap                                       *)
(*                                                                         *)
(* Strings that the code builds with fmt.Sprintf("%s.%s", ...) are         *)
(* sequences of dot-free tokens; joining with "." is concatenation.        *)
(* Errors are records [kind, errs]: kind "nil" is Go's nil error.          *)
(***************************************************************************)
EXTENDS Integers, Sequences, FiniteSets, Bags, TLC

VARIABLES
    spans,      \* all spans ever created, by id 1..Len(spans)
    histogram,  \* Statsd histograms: bag of metric paths, one copy per sample
    counter,    \* Statsd counters: bag of metric paths, one copy per Add(1)
    bpHooks,    \* BaseplateHooks registered on the tracer, registration order
    factory,    \* the MonitoredRedisFactory / MonitoredCmdableFactory
    clients,    \* per worker: the client derived by BuildClient
    ctx,        \* per worker: the handler's current context
    pc,         \* per worker: position of the request
    deferred,   \* per worker: arguments captured by `defer span.Stop(ctx, err)`
    result,     \* per worker: what next returned and what the endpoint returned
    cmd,        \* per worker: Redis command / pipeline in flight
    procMap,    \* thrift processor map: operation name -> handler
    wraps,      \* the middleware lists passed to Wrap so far, in call order
    call        \* invocation of a wrapped handler in progress

vars == <<spans, histogram, counter, bpHooks, factory, clients, ctx, pc,
          deferred, result, cmd, procMap, wraps, call>>

traceVars == <<spans, histogram, counter, bpHooks, factory, clients, ctx, pc,
               deferred, result, cmd>>
wrapVars == <<procMap, wraps, call>>

----------------------------------------------------------------------------
(* Bounds *)
MaxSpans == 3
MaxCmds == 2
MaxMiddlewares == 2
MaxWraps == 2

Workers == {"w1", "w2"}
ClientNames == {"redis", "cache"}
CmdNames == {"ping", "get"}
ServerNames == {"Get"}
TracerHooks == { << [Prefix |-> <<"svc">>] >>,
                 << [Prefix |-> <<"svc">>], [Prefix |-> <<"aux">>] >> }

----------------------------------------------------------------------------
(* Errors *)
Nil == [kind |-> "nil", errs |-> <<>>]
Err(e) == [kind |-> "err", errs |-> <<e>>]
OpErrs == {Nil, Err("e1")}
PipeErrs == {Nil, Err("e1"), Err("e2")}
StopErrs == {Nil, Err("publish")}
Responses == {"r1", "r2"}

(* const ( success = "success"; fail = "fail" ) *)
success == "success"
fail == "fail"

----------------------------------------------------------------------------
(* Contexts and spans *)
EmptyCtx == [server |-> 0, active |-> 0]

GetActiveSpan(c) == c.active
GetServerSpan(c) == c.server

TypeString(t) == t

NewSpan(name, type, parent, owner, origin) ==
    [name |-> name, type |-> type, parent |-> parent, owner |-> owner,
     origin |-> origin, hooks |-> <<>>, stops |-> <<>>]

RegisterHook(span, hook) == [span EXCEPT !.hooks = Append(@, hook)]

----------------------------------------------------------------------------
(* metricsbp: BaseplateHook and SpanHook *)
(* variant of newSpanHook that leaves the span type out of the path *)
newSpanHookNoType(prefix, span) ==
    LET name == prefix \o span.name
    IN  [Name |-> name, timer |-> name]

newSpanHook(prefix, span) ==
    LET name == prefix \o <<TypeString(span.type)>> \o span.name
    IN  [Name |-> name, timer |-> name]

OnServerSpanCreate(h, span) == RegisterHook(span, newSpanHook(h.Prefix, span))

(* variant of OnCreateChild that restarts from the first path component  *)
(* instead of the parent hook's full path                                 *)
OnCreateChildFlat(h, child) ==
    RegisterHook(child, newSpanHook(<<h.Name[1]>>, child))

(* variant of OnCreateChild that registers the child hook twice *)
OnCreateChildTwice(h, child) ==
    RegisterHook(RegisterHook(child, newSpanHook(h.Name, child)),
                 newSpanHook(h.Name, child))

OnCreateChild(h, child) == RegisterHook(child, newSpanHook(h.Name, child))

(* variant of OnStart that observes the timer, emitting a sample at start *)
OnStartObserves(h, span, m) ==
    [span |-> span, m |-> [hist |-> m.hist (+) SetToBag({h.timer}), cnt |-> m.cnt],
     ret |-> Nil]

(* OnStart is a nop: span and metrics m = [hist, cnt] come back as they were *)
OnStart(h, span, m) == [span |-> span, m |-> m, ret |-> Nil]

(* variant of OnEnd with the nil test inverted *)
OnEndInverted(h, err, m) ==
    LET statusMetricPath == IF err = Nil THEN h.Name \o <<fail>>
                                         ELSE h.Name \o <<success>>
    IN  [hist |-> m.hist (+) SetToBag({h.timer}),
         cnt  |-> m.cnt (+) SetToBag({statusMetricPath})]

OnEnd(h, err, m) ==
    LET statusMetricPath == IF err # Nil THEN h.Name \o <<fail>>
                                         ELSE h.Name \o <<success>>
    IN  [hist |-> m.hist (+) SetToBag({h.timer}),
         cnt  |-> m.cnt (+) SetToBag({statusMetricPath})]

----------------------------------------------------------------------------
(* tracing: hook dispatch in registration order                           *)
(* A dispatch works on a record that carries the span being created, the  *)
(* metrics m = [hist, cnt] and log, the callbacks fired so far.            *)
Fired(ev, h) == [ev |-> ev, hook |-> h]

RECURSIVE DispatchServerCreate(_, _, _)
DispatchServerCreate(hs, i, r) ==
    IF i > Len(hs) THEN r
    ELSE DispatchServerCreate(hs, i + 1,
             [r EXCEPT !.span = OnServerSpanCreate(hs[i], r.span)])

RECURSIVE DispatchCreateChild(_, _, _)
DispatchCreateChild(hs, i, r) ==
    IF i > Len(hs) THEN r
    ELSE DispatchCreateChild(hs, i + 1,
             [r EXCEPT !.span = OnCreateChild(hs[i], r.span),
                       !.log = Append(@, Fired("OnCreateChild", hs[i].Name))])

RECURSIVE DispatchStart(_, _, _)
DispatchStart(hs, i, r) ==
    IF i > Len(hs) THEN r
    ELSE LET o == OnStart(hs[i], r.span, r.m)
         IN  DispatchStart(hs, i + 1,
                 [r EXCEPT !.span = o.span, !.m = o.m,
                           !.log = Append(@, Fired("OnStart", hs[i].Name))])

(* variant of DispatchEnd that walks the hooks last to first *)
RECURSIVE DispatchEndReversed(_, _, _, _)
DispatchEndReversed(hs, i, err, r) ==
    IF i > Len(hs) THEN r
    ELSE LET h == hs[Len(hs) - i + 1]
             o == OnEnd(h, err, r.m)
         IN  DispatchEndReversed(hs, i + 1, err,
                 [r EXCEPT !.m = [hist |-> o.hist, cnt |-> o.cnt],
                           !.log = Append(@, Fired("OnEnd", h.Name))])

RECURSIVE DispatchEnd(_, _, _, _)
DispatchEnd(hs, i, err, r) ==
    IF i > Len(hs) THEN r
    ELSE LET o == OnEnd(hs[i], err, r.m)
         IN  DispatchEnd(hs, i + 1, err,
                 [r EXCEPT !.m = [hist |-> o.hist, cnt |-> o.cnt],
                           !.log = Append(@, Fired("OnEnd", hs[i].Name))])

(* the span is created, the creation hooks register their hooks on it,    *)
(* then it is started: OnStart fires on the hooks it now carries.  st is   *)
(* a record with fields spans, m and log (others are kept as they are).    *)
Started(st, created) ==
    LET r == DispatchStart(created.span.hooks, 1,
                           [span |-> created.span, m |-> st.m, log |-> created.log])
    IN  [st EXCEPT !.spans = Append(@, r.span), !.m = r.m, !.log = r.log]

CreateServerSpan(st, hs, name, owner) ==
    Started(st, DispatchServerCreate(hs, 1,
                    [span |-> NewSpan(name, "server", 0, owner, "http"),
                     log |-> st.log]))

CreateChild(st, parent, name, type, owner, origin) ==
    Started(st, DispatchCreateChild(st.spans[parent].hooks, 1,
                    [span |-> NewSpan(name, type, parent, owner, origin),
                     log |-> st.log]))

(* Span.Stop: record the end, fire OnEnd on every hook of the span *)
Stop(st, id, err) ==
    LET r == DispatchEnd(st.spans[id].hooks, 1, err, [m |-> st.m, log |-> st.log])
    IN  [st EXCEPT !.spans = [@ EXCEPT ![id].stops = Append(@, err)],
                   !.m = r.m, !.log = r.log]

----------------------------------------------------------------------------
(* batcherror.BatchError: Add drops nil errors, Compile is nil for an empty batch *)
BatchAdd(be, err) == IF err = Nil THEN be ELSE be \o err.errs

BatchCompile(be) == IF be = <<>> THEN Nil ELSE [kind |-> "batch", errs |-> be]

----------------------------------------------------------------------------
(* integrations/redis.go: RedisSpanHook                                    *)
(* variant of startChildSpan that looks for the server span first *)
startChildSpanServerFirst(h, st, cmdName, w) ==
    LET span == IF GetServerSpan(st.ctx) # 0 THEN GetServerSpan(st.ctx)
                                             ELSE GetActiveSpan(st.ctx)
    IN  IF span = 0 THEN st
        ELSE LET name == <<h.ClientName>> \o cmdName
                 r == CreateChild(st, span, name, "client", w, "redis")
             IN  [r EXCEPT !.ctx.active = Len(r.spans)]

(* st is [spans, m, log, ctx]; the result carries the new span store and  *)
(* the context handed back to go-redis.                                    *)
startChildSpan(h, st, cmdName, w) ==
    LET span == IF GetActiveSpan(st.ctx) # 0 THEN GetActiveSpan(st.ctx)
                                             ELSE GetServerSpan(st.ctx)
    IN  IF span = 0 THEN st
        ELSE LET name == <<h.ClientName>> \o cmdName
                 r == CreateChild(st, span, name, "client", w, "redis")
             IN  [r EXCEPT !.ctx.active = Len(r.spans)]

(* variant of endChildSpan that stops the span only for a failed command *)
endChildSpanOnError(st, err, stopRet) ==
    IF GetActiveSpan(st.ctx) # 0 /\ err # Nil
    THEN LET r == Stop(st, GetActiveSpan(st.ctx), err)
         IN  [spans |-> r.spans, m |-> r.m, log |-> r.log, ctx |-> st.ctx,
              ret |-> stopRet]
    ELSE [spans |-> st.spans, m |-> st.m, log |-> st.log, ctx |-> st.ctx,
          ret |-> Nil]

(* st is [spans, m, log, ctx]; stopRet is what span.Stop returns *)
endChildSpan(st, err, stopRet) ==
    IF GetActiveSpan(st.ctx) # 0
    THEN LET r == Stop(st, GetActiveSpan(st.ctx), err)
         IN  [spans |-> r.spans, m |-> r.m, log |-> r.log, ctx |-> st.ctx,
              ret |-> stopRet]
    ELSE [spans |-> st.spans, m |-> st.m, log |-> st.log, ctx |-> st.ctx,
          ret |-> Nil]

BeforeProcess(h, st, cmdName, w) ==
    LET r == startChildSpan(h, st, <<cmdName>>, w)
    IN  [spans |-> r.spans, m |-> r.m, log |-> r.log, ctx |-> r.ctx, err |-> Nil]

(* variant of AfterProcess that ends the span without the command's error *)
AfterProcessNoErr(h, st, cmdErr, stopRet) == endChildSpan(st, Nil, stopRet)

AfterProcess(h, st, cmdErr, stopRet) == endChildSpan(st, cmdErr, stopRet)

(* variant of BeforeProcessPipeline that opens one child span per command *)
RECURSIVE startPerCommand(_, _, _, _)
startPerCommand(h, st, n, w) ==
    IF n = 0 THEN st
    ELSE startPerCommand(h, startChildSpan(h, st, <<"pipeline">>, w), n - 1, w)

BeforeProcessPipelinePerCmd(h, st, cmds, w) ==
    LET r == startPerCommand(h, st, Len(cmds), w)
    IN  [spans |-> r.spans, m |-> r.m, log |-> r.log, ctx |-> r.ctx, err |-> Nil]

BeforeProcessPipeline(h, st, cmds, w) ==
    LET r == startChildSpan(h, st, <<"pipeline">>, w)
    IN  [spans |-> r.spans, m |-> r.m, log |-> r.log, ctx |-> r.ctx, err |-> Nil]

RECURSIVE AddAll(_, _, _)
AddAll(errs, cmds, i) ==
    IF i > Len(cmds) THEN errs
    ELSE AddAll(BatchAdd(errs, cmds[i]), cmds, i + 1)

(* variant of AfterProcessPipeline that stops adding at the first failure *)
RECURSIVE AddFirst(_, _, _)
AddFirst(errs, cmds, i) ==
    IF i > Len(cmds) \/ errs # <<>> THEN errs
    ELSE AddFirst(BatchAdd(errs, cmds[i]), cmds, i + 1)

AfterProcessPipelineFirst(h, st, cmds, stopRet) ==
    LET errs == AddFirst(<<>>, cmds, 1)
    IN  endChildSpan(st, BatchCompile(errs), stopRet)

AfterProcessPipeline(h, st, cmds, stopRet) ==
    LET errs == AddAll(<<>>, cmds, 1)
    IN  endChildSpan(st, BatchCompile(errs), stopRet)

----------------------------------------------------------------------------
(* go-redis hooks.process / hooks.processPipeline: every hook's Before in  *)
(* order (stopping at the first error), the command, every hook's After    *)
(* (keeping the first error).                                              *)
RECURSIVE beforeAll(_, _, _, _, _, _)
beforeAll(hs, i, st, kind, arg, w) ==
    IF i > Len(hs)
    THEN [spans |-> st.spans, m |-> st.m, log |-> st.log, ctx |-> st.ctx, err |-> Nil]
    ELSE LET r == IF kind = "cmd" THEN BeforeProcess(hs[i], st, arg, w)
                                  ELSE BeforeProcessPipeline(hs[i], st, arg, w)
         IN  IF r.err # Nil THEN r
             ELSE beforeAll(hs, i + 1,
                            [spans |-> r.spans, m |-> r.m, log |-> r.log, ctx |-> r.ctx],
                            kind, arg, w)

RECURSIVE afterAll(_, _, _, _, _, _, _)
afterAll(hs, i, st, kind, arg, stopRet, firstErr) ==
    IF i > Len(hs)
    THEN [spans |-> st.spans, m |-> st.m, log |-> st.log, ctx |-> st.ctx,
          ret |-> firstErr]
    ELSE LET r == IF kind = "cmd" THEN AfterProcess(hs[i], st, arg, stopRet)
                                  ELSE AfterProcessPipeline(hs[i], st, arg, stopRet)
         IN  afterAll(hs, i + 1,
                      [spans |-> r.spans, m |-> r.m, log |-> r.log, ctx |-> r.ctx],
                      kind, arg, stopRet,
                      IF r.ret # Nil /\ firstErr = Nil THEN r.ret ELSE firstErr)

----------------------------------------------------------------------------
(* Monitored-client factories (integrations/redis.go, redisbp)             *)
FreshClient == [built |-> TRUE, hooks |-> <<>>, ctx |-> EmptyCtx]
NoClient == [built |-> FALSE, hooks |-> <<>>, ctx |-> EmptyCtx]

AddHook(c, hook) == [c EXCEPT !.hooks = Append(@, hook)]

(* redis.Client.WithContext: a shallow clone bound to the given context *)
WithMonitoredContext(c, c2) == [c EXCEPT !.ctx = c2]

newMonitoredRedisFactory(name, client) ==
    [built |-> TRUE, name |-> name,
     client |-> AddHook(client, [ClientName |-> name])]

NoFactory == [built |-> FALSE, name |-> "", client |-> NoClient]

NoCmd == [phase |-> "none", kind |-> "cmd", name |-> "", errs |-> <<>>,
          ctx |-> EmptyCtx, ret |-> Nil, before |-> 0, fired |-> <<>>]
NoResult == [nextResp |-> "", nextErr |-> Nil, resp |-> "", err |-> Nil]
NoDefer == [span |-> 0, err |-> Nil]

----------------------------------------------------------------------------
(* thriftbp: processor maps, middlewares, Wrap                             *)
(* A TProcessorFunction is the chain of middleware closures around an      *)
(* original handler: chain[1] is the outermost wrapper, each entry holds   *)
(* the middleware and the name argument it was called with.                *)
OpNames == {"ping", "get"}
Middlewares == {"A", "B", "C"}

Original(n) == [chain |-> <<>>, orig |-> n]

NewProcessor(S) == [n \in S |-> Original(n)]

(* middleware m called as m(name, next): the closure it returns *)
ApplyMiddleware(m, name, next) ==
    [chain |-> <<[mw |-> m, name |-> name]>> \o next.chain, orig |-> next.orig]

(* variant of WrapLoop that applies the middlewares first to last, so the *)
(* last declared one ends up outermost                                    *)
RECURSIVE WrapLoopForward(_, _, _, _)
WrapLoopForward(name, wrapped, middlewares, i) ==
    IF i < 1 THEN wrapped
    ELSE WrapLoopForward(name,
             ApplyMiddleware(middlewares[Len(middlewares) - i + 1], name, wrapped),
             middlewares, i - 1)

(* variant of WrapLoop that always puts a WrappedTProcessorFunc around the *)
(* handler, also when no middleware is left to apply                       *)
RECURSIVE WrapLoopAlwaysWraps(_, _, _, _)
WrapLoopAlwaysWraps(name, wrapped, middlewares, i) ==
    IF i < 1 THEN ApplyMiddleware("WrappedTProcessorFunc", name, wrapped)
    ELSE WrapLoopAlwaysWraps(name, ApplyMiddleware(middlewares[i], name, wrapped),
                             middlewares, i - 1)

(* for i := len(middlewares) - 1; i >= 0; i-- { wrapped = middlewares[i](name, wrapped) } *)
RECURSIVE WrapLoop(_, _, _, _)
WrapLoop(name, wrapped, middlewares, i) ==
    IF i < 1 THEN wrapped
    ELSE WrapLoop(name, ApplyMiddleware(middlewares[i], name, wrapped), middlewares, i - 1)

AddToProcessorMap(pm, name, f) == [pm EXCEPT ![name] = f]

(* variant of WrapRange that returns after the first operation it ranges over *)
WrapRangeFirstOnly(pm, names, middlewares) ==
    IF names = {} THEN pm
    ELSE LET name == CHOOSE n \in names : TRUE
             wrapped == WrapLoop(name, pm[name], middlewares, Len(middlewares))
         IN  AddToProcessorMap(pm, name, wrapped)

(* variant of WrapRange in which every iteration starts from the handler   *)
(* of one and the same operation instead of its own processorFunc          *)
RECURSIVE WrapRangeShared(_, _, _)
WrapRangeShared(pm, names, middlewares) ==
    IF names = {} THEN pm
    ELSE LET name == CHOOSE n \in names : TRUE
             shared == CHOOSE n \in DOMAIN pm : TRUE
             wrapped == WrapLoop(name, pm[shared], middlewares, Len(middlewares))
         IN  WrapRangeShared(AddToProcessorMap(pm, name, wrapped), names \ {name},
                             middlewares)

(* variant of WrapRange in which every iteration starts from the original  *)
(* handler of the entry, dropping the wrappers earlier Wrap calls put on   *)
RECURSIVE WrapRangeReplaces(_, _, _)
WrapRangeReplaces(pm, names, middlewares) ==
    IF names = {} THEN pm
    ELSE LET name == CHOOSE n \in names : TRUE
             wrapped == WrapLoop(name, Original(pm[name].orig), middlewares,
                                 Len(middlewares))
         IN  WrapRangeReplaces(AddToProcessorMap(pm, name, wrapped), names \ {name},
                               middlewares)

(* for name, processorFunc := range processor.ProcessorMap() { ... } *)
RECURSIVE WrapRange(_, _, _)
WrapRange(pm, names, middlewares) ==
    IF names = {} THEN pm
    ELSE LET name == CHOOSE n \in names : TRUE
             wrapped == WrapLoop(name, pm[name], middlewares, Len(middlewares))
         IN  WrapRange(AddToProcessorMap(pm, name, wrapped), names \ {name}, middlewares)

NoCall == [active |-> FALSE, done |-> FALSE, name |-> "", rest |-> Original(""),
           log |-> <<>>]

----------------------------------------------------------------------------
Init ==
    /\ spans = <<>>
    /\ histogram = EmptyBag
    /\ counter = EmptyBag
    /\ bpHooks \in TracerHooks
    /\ factory = NoFactory
    /\ clients = [w \in Workers |-> NoClient]
    /\ ctx = [w \in Workers |-> EmptyCtx]
    /\ pc = [w \in Workers |-> "idle"]
    /\ deferred = [w \in Workers |-> NoDefer]
    /\ result = [w \in Workers |-> NoResult]
    /\ cmd = [w \in Workers |-> NoCmd]
    /\ procMap = NewProcessor(OpNames)
    /\ wraps = <<>>
    /\ call = NoCall

(* the span store and the Statsd client as the operators above take them *)
StoreAt(c, log) ==
    [spans |-> spans, m |-> [hist |-> histogram, cnt |-> counter],
     log |-> log, ctx |-> c]

Store == StoreAt(EmptyCtx, <<>>)

(* NewMonitoredRedisClient / NewMonitoredClientFactory and siblings *)
NewFactory(name) ==
    /\ ~factory.built
    /\ factory' = newMonitoredRedisFactory(name, FreshClient)
    /\ UNCHANGED <<spans, histogram, counter, bpHooks, clients, ctx, pc,
                   deferred, result, cmd>>
    /\ UNCHANGED wrapVars

(* variant of BuildClient that binds the shared base client itself to the *)
(* context and hands it out, instead of deriving a clone                  *)
BuildClientShared(w) ==
    /\ factory.built
    /\ pc[w] \in {"idle", "handling"}
    /\ cmd[w].phase = "none"
    /\ factory' = [factory EXCEPT !.client = WithMonitoredContext(@, ctx[w])]
    /\ clients' = [v \in Workers |->
                     IF v = w \/ clients[v].built THEN factory'.client
                     ELSE clients[v]]
    /\ UNCHANGED <<spans, histogram, counter, bpHooks, ctx, pc,
                   deferred, result, cmd>>
    /\ UNCHANGED wrapVars

(* MonitoredRedisFactory.BuildClient(ctx) *)
BuildClient(w) ==
    /\ factory.built
    /\ pc[w] \in {"idle", "handling"}
    /\ cmd[w].phase = "none"
    /\ clients' = [clients EXCEPT ![w] = WithMonitoredContext(factory.client, ctx[w])]
    /\ UNCHANGED <<spans, histogram, counter, bpHooks, factory, ctx, pc,
                   deferred, result, cmd>>
    /\ UNCHANGED wrapVars

(* variant of EndpointEnter in which span.Stop is called on the spot       *)
(* instead of being deferred                                               *)
EndpointEnterStopsEarly(w, name) ==
    /\ pc[w] = "idle"
    /\ cmd[w].phase = "none"
    /\ Len(spans) < MaxSpans
    /\ LET c == CreateServerSpan(Store, bpHooks, <<name>>, w)
           r == Stop(c, Len(c.spans), Nil)
       IN  /\ spans' = r.spans
           /\ histogram' = r.m.hist
           /\ counter' = r.m.cnt
           /\ ctx' = [ctx EXCEPT ![w] = [server |-> Len(r.spans), active |-> 0]]
           /\ deferred' = [deferred EXCEPT ![w] = [span |-> Len(r.spans), err |-> Nil]]
    /\ pc' = [pc EXCEPT ![w] = "handling"]
    /\ UNCHANGED <<bpHooks, factory, clients, result, cmd>>
    /\ UNCHANGED wrapVars

(* InjectHTTPServerSpan: StartSpanFromHTTPContext, then                    *)
(* `defer span.Stop(ctx, err)`, whose arguments Go evaluates at the defer  *)
(* statement, where the named result err still holds its zero value.       *)
EndpointEnter(w, name) ==
    /\ pc[w] = "idle"
    /\ cmd[w].phase = "none"
    /\ Len(spans) < MaxSpans
    /\ LET r == CreateServerSpan(Store, bpHooks, <<name>>, w)
           errAtDefer == Nil
       IN  /\ spans' = r.spans
           /\ histogram' = r.m.hist
           /\ counter' = r.m.cnt
           /\ ctx' = [ctx EXCEPT ![w] = [server |-> Len(r.spans), active |-> 0]]
           /\ deferred' = [deferred EXCEPT ![w] =
                              [span |-> Len(r.spans), err |-> errAtDefer]]
    /\ pc' = [pc EXCEPT ![w] = "handling"]
    /\ UNCHANGED <<bpHooks, factory, clients, result, cmd>>
    /\ UNCHANGED wrapVars

(* variant of EndpointResult in which the deferred call assigns the result *)
(* of span.Stop to the named result err                                   *)
EndpointResultFromStop(nextResp, nextErr, stopRet) ==
    [resp |-> nextResp, err |-> IF stopRet # Nil THEN stopRet ELSE nextErr]

(* `response, err = next(ctx, request); return`: the named results are    *)
(* what the endpoint returns; the deferred Stop's own result is dropped    *)
EndpointResult(nextResp, nextErr, stopRet) ==
    [resp |-> nextResp, err |-> nextErr]

(* response, err = next(ctx, request); return; the deferred Stop runs *)
EndpointExit(w, resp, err, stopRet) ==
    /\ pc[w] = "handling"
    /\ cmd[w].phase = "none"
    /\ LET r == Stop(Store, deferred[w].span, deferred[w].err)
       IN  /\ spans' = r.spans
           /\ histogram' = r.m.hist
           /\ counter' = r.m.cnt
    /\ LET ret == EndpointResult(resp, err, stopRet)
       IN  result' = [result EXCEPT ![w] = [nextResp |-> resp, nextErr |-> err,
                                            resp |-> ret.resp, err |-> ret.err]]
    /\ pc' = [pc EXCEPT ![w] = "done"]
    /\ UNCHANGED <<bpHooks, factory, clients, ctx, deferred, cmd>>
    /\ UNCHANGED wrapVars

(* a command on the derived client: hooks' BeforeProcess *)
ProcessBefore(w, name) ==
    /\ clients[w].built
    /\ pc[w] \in {"idle", "handling"}
    /\ cmd[w].phase = "none"
    /\ Len(spans) + Len(clients[w].hooks) <= MaxSpans
    /\ LET r == beforeAll(clients[w].hooks, 1,
                          StoreAt(clients[w].ctx, <<>>), "cmd", name, w)
       IN  /\ spans' = r.spans
           /\ histogram' = r.m.hist
           /\ counter' = r.m.cnt
           /\ cmd' = [cmd EXCEPT ![w] =
                 [phase |-> IF r.err = Nil THEN "before" ELSE "after",
                  kind |-> "cmd", name |-> name, errs |-> <<>>,
                  ctx |-> r.ctx, ret |-> r.err, before |-> Len(spans),
                  fired |-> r.log]]
    /\ UNCHANGED <<bpHooks, factory, clients, ctx, pc, deferred, result>>
    /\ UNCHANGED wrapVars

(* the command runs and yields cmd.Err(); hooks' AfterProcess *)
ProcessAfter(w, cmdErr, stopRet) ==
    /\ cmd[w].phase = "before"
    /\ cmd[w].kind = "cmd"
    /\ LET r == afterAll(clients[w].hooks, 1,
                         StoreAt(cmd[w].ctx, cmd[w].fired),
                         "cmd", cmdErr, stopRet, Nil)
       IN  /\ spans' = r.spans
           /\ histogram' = r.m.hist
           /\ counter' = r.m.cnt
           /\ cmd' = [cmd EXCEPT ![w].phase = "after", ![w].errs = <<cmdErr>>,
                                 ![w].ret = r.ret, ![w].fired = r.log]
    /\ UNCHANGED <<bpHooks, factory, clients, ctx, pc, deferred, result>>
    /\ UNCHANGED wrapVars

(* a pipeline of n commands: hooks' BeforeProcessPipeline *)
PipelineBefore(w, n) ==
    /\ clients[w].built
    /\ pc[w] \in {"idle", "handling"}
    /\ cmd[w].phase = "none"
    /\ Len(spans) + Len(clients[w].hooks) <= MaxSpans
    /\ LET r == beforeAll(clients[w].hooks, 1,
                          StoreAt(clients[w].ctx, <<>>), "pipeline",
                          [i \in 1..n |-> Nil], w)
       IN  /\ spans' = r.spans
           /\ histogram' = r.m.hist
           /\ counter' = r.m.cnt
           /\ cmd' = [cmd EXCEPT ![w] =
                 [phase |-> IF r.err = Nil THEN "before" ELSE "after",
                  kind |-> "pipeline", name |-> "pipeline",
                  errs |-> [i \in 1..n |-> Nil],
                  ctx |-> r.ctx, ret |-> r.err, before |-> Len(spans),
                  fired |-> r.log]]
    /\ UNCHANGED <<bpHooks, factory, clients, ctx, pc, deferred, result>>
    /\ UNCHANGED wrapVars

(* the pipeline runs, each command yields its Err(); AfterProcessPipeline *)
PipelineAfter(w, cmdErrs, stopRet) ==
    /\ cmd[w].phase = "before"
    /\ cmd[w].kind = "pipeline"
    /\ Len(cmdErrs) = Len(cmd[w].errs)
    /\ LET r == afterAll(clients[w].hooks, 1,
                         StoreAt(cmd[w].ctx, cmd[w].fired),
                         "pipeline", cmdErrs, stopRet, Nil)
       IN  /\ spans' = r.spans
           /\ histogram' = r.m.hist
           /\ counter' = r.m.cnt
           /\ cmd' = [cmd EXCEPT ![w].phase = "after", ![w].errs = cmdErrs,
                                 ![w].ret = r.ret, ![w].fired = r.log]
    /\ UNCHANGED <<bpHooks, factory, clients, ctx, pc, deferred, result>>
    /\ UNCHANGED wrapVars

(* hooks.process returns to the caller of the command *)
ProcessReturn(w) ==
    /\ cmd[w].phase = "after"
    /\ cmd' = [cmd EXCEPT ![w] = NoCmd]
    /\ UNCHANGED <<spans, histogram, counter, bpHooks, factory, clients, ctx, pc,
                   deferred, result>>
    /\ UNCHANGED wrapVars

SeqsUpTo(S, n) == UNION { [1..k -> S] : k \in 0..n }

(* handler code opening a local child span of its current span *)
HandlerCreateChild(w, name) ==
    /\ pc[w] = "handling"
    /\ cmd[w].phase = "none"
    /\ Len(spans) < MaxSpans
    /\ LET parent == IF GetActiveSpan(ctx[w]) # 0 THEN GetActiveSpan(ctx[w])
                                                  ELSE GetServerSpan(ctx[w])
           r == CreateChild(Store, parent, <<name>>, "local", w, "handler")
       IN  /\ spans' = r.spans
           /\ histogram' = r.m.hist
           /\ counter' = r.m.cnt
           /\ ctx' = [ctx EXCEPT ![w].active = Len(r.spans)]
    /\ UNCHANGED <<bpHooks, factory, clients, pc, deferred, result, cmd>>
    /\ UNCHANGED wrapVars

(* handler code ending its local child span and resuming the parent context *)
HandlerEndChild(w, err) ==
    /\ pc[w] = "handling"
    /\ cmd[w].phase = "none"
    /\ GetActiveSpan(ctx[w]) # 0
    /\ LET id == GetActiveSpan(ctx[w])
           r == Stop(Store, id, err)
       IN  /\ spans' = r.spans
           /\ histogram' = r.m.hist
           /\ counter' = r.m.cnt
           /\ ctx' = [ctx EXCEPT ![w].active =
                        IF spans[id].parent = GetServerSpan(ctx[w]) THEN 0
                        ELSE spans[id].parent]
    /\ UNCHANGED <<bpHooks, factory, clients, pc, deferred, result, cmd>>
    /\ UNCHANGED wrapVars

(* thriftbp.Wrap(processor, middlewares...) *)
Wrap(middlewares) ==
    /\ Len(wraps) < MaxWraps
    /\ call = NoCall
    /\ procMap' = WrapRange(procMap, DOMAIN procMap, middlewares)
    /\ wraps' = Append(wraps, middlewares)
    /\ UNCHANGED call
    /\ UNCHANGED traceVars

(* a request for operation n arrives: processor map lookup, Process is called *)
Invoke(n) ==
    /\ call = NoCall
    /\ n \in DOMAIN procMap
    /\ call' = [active |-> TRUE, done |-> FALSE, name |-> n, rest |-> procMap[n],
                log |-> <<>>]
    /\ UNCHANGED <<procMap, wraps>>
    /\ UNCHANGED traceVars

(* the current wrapper is entered and calls its next; the original handler *)
(* is entered when no wrapper is left                                      *)
Enter ==
    /\ call.active
    /\ IF call.rest.chain # <<>>
       THEN call' = [call EXCEPT !.log = Append(@, Head(call.rest.chain)),
                                 !.rest.chain = Tail(@)]
       ELSE call' = [call EXCEPT !.log = Append(@, [mw |-> "original",
                                                     name |-> call.rest.orig]),
                                 !.active = FALSE, !.done = TRUE]
    /\ UNCHANGED <<procMap, wraps>>
    /\ UNCHANGED traceVars

(* Process returns to the server loop *)
Return ==
    /\ call.done
    /\ call' = NoCall
    /\ UNCHANGED <<procMap, wraps>>
    /\ UNCHANGED traceVars

LocalNames == {"work"}
Seq1 == {"w1"}

(* one request worker, full data *)
Next ==
    \/ \E name \in ClientNames : NewFactory(name)
    \/ \E w \in Seq1 : BuildClient(w)
    \/ \E w \in Seq1, name \in ServerNames : EndpointEnter(w, name)
    \/ \E w \in Seq1, resp \in Responses, err \in OpErrs, sr \in StopErrs :
           EndpointExit(w, resp, err, sr)
    \/ \E w \in Seq1, name \in LocalNames : HandlerCreateChild(w, name)
    \/ \E w \in Seq1, err \in OpErrs : HandlerEndChild(w, err)
    \/ \E w \in Seq1, name \in CmdNames : ProcessBefore(w, name)
    \/ \E w \in Seq1, e \in OpErrs, sr \in StopErrs : ProcessAfter(w, e, sr)
    \/ \E w \in Seq1, n \in 0..MaxCmds : PipelineBefore(w, n)
    \/ \E w \in Seq1, es \in SeqsUpTo(PipeErrs, MaxCmds), sr \in StopErrs :
           PipelineAfter(w, es, sr)
    \/ \E w \in Seq1 : ProcessReturn(w)

Spec == Init /\ [][Next]_vars

(* concurrent request workers sharing one factory *)
NextConc ==
    \/ \E name \in ClientNames : NewFactory(name)
    \/ \E w \in Workers : BuildClient(w)
    \/ \E w \in Workers, name \in ServerNames : EndpointEnter(w, name)
    \/ \E w \in Workers, err \in OpErrs : EndpointExit(w, "r1", err, Nil)
    \/ \E w \in Workers : ProcessBefore(w, "ping")
    \/ \E w \in Workers, e \in OpErrs : ProcessAfter(w, e, Nil)
    \/ \E w \in Workers : ProcessReturn(w)

SpecConc == Init /\ [][NextConc]_vars

(* thrift processors of every shape, wrapped up to MaxWraps times *)
InitWrap ==
    /\ spans = <<>>
    /\ histogram = EmptyBag
    /\ counter = EmptyBag
    /\ bpHooks = <<>>
    /\ factory = NoFactory
    /\ clients = [w \in Workers |-> NoClient]
    /\ ctx = [w \in Workers |-> EmptyCtx]
    /\ pc = [w \in Workers |-> "idle"]
    /\ deferred = [w \in Workers |-> NoDefer]
    /\ result = [w \in Workers |-> NoResult]
    /\ cmd = [w \in Workers |-> NoCmd]
    /\ procMap \in { NewProcessor(S) : S \in SUBSET OpNames }
    /\ wraps = <<>>
    /\ call = NoCall

NextWrap ==
    \/ \E ms \in SeqsUpTo(Middlewares, MaxMiddlewares) : Wrap(ms)
    \/ \E n \in OpNames : Invoke(n)
    \/ Enter
    \/ Return

SpecWrap == InitWrap /\ [][NextWrap]_vars

----------------------------------------------------------------------------
(* Properties *)
Last(q) == q[Len(q)]

IsPrefix(p, q) == Len(p) <= Len(q) /\ \A i \in 1..Len(p) : p[i] = q[i]

(* the call order a single Wrap(processor, ms...) promises for operation n *)
DeclaredOrder(ms, n) ==
    [i \in 1..(Len(ms) + 1) |->
        IF i <= Len(ms) THEN [mw |-> ms[i], name |-> n]
                        ELSE [mw |-> "original", name |-> n]]

(* C1: after one Wrap with middlewares m0..mN, a call of any operation     *)
(* enters m0, m1, ..., mN in that order and the original handler last.     *)
C1_WrapCallOrder ==
    (Len(wraps) = 1 /\ call # NoCall) =>
        /\ IsPrefix(call.log, DeclaredOrder(wraps[1], call.name))
        /\ call.done => call.log = DeclaredOrder(wraps[1], call.name)

C1_Witness ==
    /\ Len(wraps) = 1
    /\ Len(wraps[1]) = 2
    /\ wraps[1][1] # wraps[1][2]
    /\ call.done
    /\ Len(call.log) = 3

(* C2: the error returned by the next endpoint is the error handed to the  *)
(* server span's Stop.                                                     *)
C2_StopGetsNextError ==
    \A w \in Workers :
        pc[w] = "done" => spans[deferred[w].span].stops = <<result[w].nextErr>>

----------------------------------------------------------------------------
StoppedNow(id) == Len(spans'[id].stops) = Len(spans[id].stops) + 1

(* C3: every OnEnd call adds exactly 1 to exactly one counter:             *)
(* <Name>.success when err is nil, <Name>.fail otherwise.  A Stop of a     *)
(* span makes one OnEnd call per hook of the span.                         *)
C3_OnEndOneCounter ==
    [][ /\ \A id \in 1..Len(spans) :
              StoppedNow(id) =>
                 LET e == Last(spans'[id].stops)
                     hs == spans[id].hooks
                 IN  /\ BagCardinality(counter') = BagCardinality(counter) + Len(hs)
                     /\ \A i \in 1..Len(hs) :
                          LET ok == hs[i].Name \o <<"success">>
                              ko == hs[i].Name \o <<"fail">>
                          IN  IF e = Nil
                              THEN /\ CopiesIn(ok, counter') = CopiesIn(ok, counter) + 1
                                   /\ CopiesIn(ko, counter') = CopiesIn(ko, counter)
                              ELSE /\ CopiesIn(ko, counter') = CopiesIn(ko, counter) + 1
                                   /\ CopiesIn(ok, counter') = CopiesIn(ok, counter)
        /\ (counter' # counter => \E id \in 1..Len(spans) : StoppedNow(id))
      ]_vars

C3_Witness ==
    \E id \in 1..Len(spans) :
        /\ spans[id].hooks # <<>>
        /\ spans[id].stops # <<>>
        /\ spans[id].stops[1] # Nil
        /\ CopiesIn(spans[id].hooks[1].Name \o <<"fail">>, counter) = 1
        /\ CopiesIn(spans[id].hooks[1].Name \o <<"success">>, counter) = 0

(* C4: no RedisSpanHook callback returns a non-nil error that comes from   *)
(* the instrumentation (here: from span.Stop).                             *)
C4_NoInstrumentationError ==
    \A w \in Workers : cmd[w].ret = Nil

----------------------------------------------------------------------------
Instrumented(id) == spans[id].origin \in {"http", "redis"}

InFlight(id) ==
    \/ /\ spans[id].origin = "redis"
       /\ cmd[spans[id].owner].phase = "before"
       /\ GetActiveSpan(cmd[spans[id].owner].ctx) = id
    \/ /\ spans[id].origin = "http"
       /\ pc[spans[id].owner] = "handling"
       /\ deferred[spans[id].owner].span = id

RECURSIVE EndsAt(_, _)
EndsAt(path, id) ==
    IF id = 0 THEN 0
    ELSE EndsAt(path, id - 1)
         + Len(spans[id].stops)
           * Cardinality({ i \in 1..Len(spans[id].hooks) : spans[id].hooks[i].Name = path })

AllPaths ==
    UNION { { spans[id].hooks[i].Name : i \in 1..Len(spans[id].hooks) } :
            id \in 1..Len(spans) }

(* C5: a span created by the instrumentation is never ended twice, and is  *)
(* ended exactly once as soon as the operation it brackets is over; each   *)
(* metrics hook on it then accounts for exactly one counter increment.     *)
C5_EndedExactlyOnce ==
    /\ \A id \in 1..Len(spans) :
          Instrumented(id) =>
             Len(spans[id].stops) = (IF InFlight(id) THEN 0 ELSE 1)
    /\ \A path \in AllPaths :
          CopiesIn(path \o <<"success">>, counter) + CopiesIn(path \o <<"fail">>, counter)
             = EndsAt(path, Len(spans))
    /\ BagCardinality(counter)
          = BagCardinality(histogram)

C5_Witness ==
    \E w \in Workers :
        /\ pc[w] = "done"
        /\ \E a, b \in 1..Len(spans) :
              /\ spans[a].origin = "http" /\ spans[a].owner = w
              /\ spans[b].origin = "redis" /\ spans[b].owner = w
              /\ Len(spans[a].stops) = 1 /\ Len(spans[b].stops) = 1
              /\ spans[b].hooks # <<>>

----------------------------------------------------------------------------
CarriesSpan(c) == GetActiveSpan(c) # 0 \/ GetServerSpan(c) # 0

PipelineBeforeNow(w) ==
    /\ cmd[w].phase = "none"
    /\ cmd'[w].phase \in {"before", "after"}
    /\ cmd'[w].kind = "pipeline"

PipelineAfterNow(w) ==
    /\ cmd[w].phase = "before"
    /\ cmd[w].kind = "pipeline"
    /\ cmd'[w].phase = "after"

(* C6: BeforeProcessPipeline, for a pipeline of any number of commands     *)
(* under a context carrying a span, creates exactly one child span, named  *)
(* <ClientName>.pipeline; AfterProcessPipeline creates none.               *)
C6_OneSpanPerPipeline ==
    [][ \A w \in Workers :
          /\ (PipelineBeforeNow(w) /\ CarriesSpan(clients[w].ctx)) =>
                /\ Len(spans') = Len(spans) + 1
                /\ Last(spans').name = <<factory.name, "pipeline">>
                /\ Last(spans').type = "client"
                /\ Last(spans').parent =
                      (IF clients[w].ctx.active # 0 THEN clients[w].ctx.active
                                                    ELSE clients[w].ctx.server)
                /\ \A id \in 1..Len(spans) : spans'[id] = spans[id]
          /\ PipelineAfterNow(w) => Len(spans') = Len(spans)
      ]_vars

C6_Witness ==
    \E w \in Workers :
        /\ cmd[w].phase = "before"
        /\ cmd[w].kind = "pipeline"
        /\ Len(cmd[w].errs) >= 2
        /\ GetActiveSpan(cmd[w].ctx) # 0
        /\ spans[GetActiveSpan(cmd[w].ctx)].name = <<factory.name, "pipeline">>
        /\ Len(spans) = cmd[w].before + 1

NonNil(es) == SelectSeq(es, LAMBDA e : e # Nil)

(* C7: the error AfterProcessPipeline hands to the batch span's Stop is    *)
(* nil iff no command failed; otherwise it carries every non-nil command   *)
(* error, in command order, duplicates kept.                               *)
C7_PipelineAggregate ==
    \A w \in Workers :
        (cmd[w].phase = "after" /\ cmd[w].kind = "pipeline"
                                /\ GetActiveSpan(cmd[w].ctx) # 0) =>
            LET e == Last(spans[GetActiveSpan(cmd[w].ctx)].stops)
                failed == NonNil(cmd[w].errs)
            IN  /\ spans[GetActiveSpan(cmd[w].ctx)].stops # <<>>
                /\ (e = Nil) <=> (Len(failed) = 0)
                /\ Len(e.errs) = Len(failed)
                /\ \A i \in 1..Len(failed) : e.errs[i] = failed[i].errs[1]

C7_Witness ==
    \E w \in Workers :
        /\ cmd[w].phase = "after" /\ cmd[w].kind = "pipeline"
        /\ GetActiveSpan(cmd[w].ctx) # 0
        /\ Len(cmd[w].errs) >= 2
        /\ Len(NonNil(cmd[w].errs)) >= 2
        /\ Len(Last(spans[GetActiveSpan(cmd[w].ctx)].stops).errs) >= 2

----------------------------------------------------------------------------
(* the scenario of C8: a root server span Get under BaseplateHook prefix   *)
(* svc (metric path svc.server.Get), with a child command span redis ping  *)
PingUnderGet(id) ==
    /\ spans[id].name = <<"redis", "ping">>
    /\ spans[id].origin = "redis"
    /\ spans[id].parent # 0
    /\ spans[spans[id].parent].parent = 0
    /\ spans[spans[id].parent].name = <<"Get">>
    /\ bpHooks[1].Prefix = <<"svc">>

OneSampleAt(path) ==
    /\ CopiesIn(path, histogram') = CopiesIn(path, histogram) + 1
    /\ CopiesIn(path \o <<"success">>, counter')
          = CopiesIn(path \o <<"success">>, counter) + 1
    /\ CopiesIn(path \o <<"fail">>, counter') = CopiesIn(path \o <<"fail">>, counter)

(* C8 as stated: the sample and the success increment land on the path     *)
(* svc.server.Get.redis.ping                                               *)
C8_Original ==
    [][ \A id \in 1..Len(spans) :
          (PingUnderGet(id) /\ StoppedNow(id) /\ Last(spans'[id].stops) = Nil)
             => OneSampleAt(<<"svc", "server", "Get", "redis", "ping">>)
      ]_vars

(* C8 amended: the child's path carries its span type, so the sample and   *)
(* the success increment land on svc.server.Get.client.redis.ping and the  *)
(* .fail counter there is unchanged.                                       *)
C8_ChildPathHasType ==
    [][ \A id \in 1..Len(spans) :
          (PingUnderGet(id) /\ StoppedNow(id) /\ Last(spans'[id].stops) = Nil)
             => OneSampleAt(<<"svc", "server", "Get", "client", "redis", "ping">>)
      ]_vars

C8_Witness ==
    \E id \in 1..Len(spans) :
        /\ PingUnderGet(id)
        /\ spans[id].stops = <<Nil>>
        /\ CopiesIn(<<"svc", "server", "Get", "client", "redis", "ping">>, histogram) = 1
        /\ CopiesIn(<<"svc", "server", "Get", "client", "redis", "ping", "success">>,
                    counter) = 1

(* C9: every metrics hook on every span has path <prefix>.<type>.<name>,   *)
(* the prefix being the BaseplateHook prefix for a server span and the     *)
(* parent's hook path for a child; samples and counters only ever land on  *)
(* such a path, <path>.success or <path>.fail.                             *)
C9_MetricPaths ==
    /\ \A id \in 1..Len(spans) :
          LET s == spans[id]
              prefixes == IF s.parent = 0
                          THEN [i \in 1..Len(bpHooks) |-> bpHooks[i].Prefix]
                          ELSE [i \in 1..Len(spans[s.parent].hooks) |->
                                    spans[s.parent].hooks[i].Name]
          IN  /\ Len(s.hooks) = Len(prefixes)
              /\ \A i \in 1..Len(prefixes) :
                    /\ s.hooks[i].Name = prefixes[i] \o <<s.type>> \o s.name
                    /\ s.hooks[i].timer = s.hooks[i].Name
    /\ BagToSet(histogram) \subseteq AllPaths
    /\ BagToSet(counter) \subseteq
          { p \o <<"success">> : p \in AllPaths } \cup { p \o <<"fail">> : p \in AllPaths }

C9_Witness ==
    \E id \in 1..Len(spans) :
        /\ spans[id].parent # 0
        /\ spans[spans[id].parent].parent # 0
        /\ spans[id].origin = "redis"
        /\ spans[id].hooks # <<>>
        /\ spans[id].stops # <<>>
        /\ Len(spans[id].hooks[1].Name) = 8

----------------------------------------------------------------------------
(* C10: whatever the interleaving of BuildClient calls and commands of     *)
(* concurrent workers, the base client keeps exactly the one hook attached *)
(* at construction and stays unbound; every derived client carries that    *)
(* hook and a context of its own worker, and every command span is a child *)
(* of a span of the same request.                                          *)
C10_FactoryIsolation ==
    /\ factory.built =>
          /\ factory.client.hooks = <<[ClientName |-> factory.name]>>
          /\ factory.client.ctx = EmptyCtx
    /\ \A w \in Workers :
          clients[w].built =>
             /\ clients[w].hooks = factory.client.hooks
             /\ GetServerSpan(clients[w].ctx) # 0 =>
                   /\ spans[GetServerSpan(clients[w].ctx)].owner = w
                   /\ GetServerSpan(clients[w].ctx) = GetServerSpan(ctx[w])
    /\ \A id \in 1..Len(spans) :
          spans[id].origin = "redis" =>
             /\ spans[id].parent # 0
             /\ spans[spans[id].parent].owner = spans[id].owner

C10_Witness ==
    \E v, w \in Workers :
        /\ v # w
        /\ clients[v].built /\ clients[w].built
        /\ GetServerSpan(clients[v].ctx) # 0
        /\ GetServerSpan(clients[w].ctx) # 0
        /\ \E id \in 1..Len(spans) :
              /\ spans[id].origin = "redis"
              /\ spans[id].owner = w
              /\ spans[id].parent = GetServerSpan(clients[w].ctx)

----------------------------------------------------------------------------
(* C11: the endpoint returned by InjectHTTPServerSpan returns exactly the  *)
(* (response, err) pair that the next endpoint returned.                   *)
C11_ResultPassesThrough ==
    \A w \in Workers :
        pc[w] = "done" =>
            /\ result[w].resp = result[w].nextResp
            /\ result[w].err = result[w].nextErr

C11_Witness ==
    \E w \in Workers :
        /\ pc[w] = "done"
        /\ result[w].nextErr # Nil
        /\ result[w].err = result[w].nextErr
        /\ result[w].resp = "r2"

----------------------------------------------------------------------------
HookNames(id) == [i \in 1..Len(spans[id].hooks) |-> spans[id].hooks[i].Name]

Events(ev, names) == [i \in 1..Len(names) |-> [ev |-> ev, hook |-> names[i]]]

(* the child span the command in flight of worker w was given, 0 if none *)
CommandSpan(w) == GetActiveSpan(cmd[w].ctx)

HasCommandSpan(w) ==
    /\ cmd[w].phase \in {"before", "after"}
    /\ CommandSpan(w) > cmd[w].before

(* C12: around a command span the callbacks fire in registration order:    *)
(* OnCreateChild on the parent's hooks, OnStart and then OnEnd on the      *)
(* child's hooks; the hooks that OnCreateChild registers on the child get  *)
(* no OnCreateChild call for that creation.                                *)
C12_HookOrder ==
    \A w \in Workers :
        HasCommandSpan(w) =>
            LET child == CommandSpan(w)
                parent == spans[child].parent
            IN  /\ cmd[w].fired =
                      Events("OnCreateChild", HookNames(parent))
                      \o Events("OnStart", HookNames(child))
                      \o (IF cmd[w].phase = "after"
                          THEN Events("OnEnd", HookNames(child)) ELSE <<>>)
                /\ \A i \in 1..Len(cmd[w].fired) :
                      cmd[w].fired[i].ev = "OnCreateChild" =>
                         \A j \in 1..Len(spans[child].hooks) :
                            cmd[w].fired[i].hook # spans[child].hooks[j].Name

C12_Witness ==
    \E w \in Workers :
        /\ HasCommandSpan(w)
        /\ cmd[w].phase = "after"
        /\ Len(spans[CommandSpan(w)].hooks) = 2
        /\ Len(cmd[w].fired) = 6
        /\ cmd[w].fired[5].hook # cmd[w].fired[6].hook

----------------------------------------------------------------------------
CreatedNow == Len(spans') = Len(spans) + 1

(* C19: when a child span is created, each OnCreateChild call of a metrics *)
(* hook of the parent registers exactly one metrics hook on the child,     *)
(* whose path starts with that parent hook's path; the parent span, its    *)
(* hooks and their names are left as they were and no counter moves.       *)
C19_OnCreateChildFrame ==
    [][ (CreatedNow /\ Last(spans').parent # 0) =>
           LET child == Last(spans')
               p == child.parent
           IN  /\ Len(child.hooks) = Len(spans[p].hooks)
               /\ \A i \in 1..Len(spans[p].hooks) :
                     LET pn == spans[p].hooks[i].Name
                     IN  /\ Len(child.hooks[i].Name) > Len(pn)
                         /\ SubSeq(child.hooks[i].Name, 1, Len(pn)) = pn
               /\ \A id \in 1..Len(spans) : spans'[id] = spans[id]
               /\ counter' = counter
      ]_vars

C19_Witness ==
    \E id \in 1..Len(spans) :
        /\ spans[id].parent # 0
        /\ Len(spans[spans[id].parent].hooks) = 2
        /\ Len(spans[id].hooks) = 2
        /\ spans[id].hooks[2].Name = spans[spans[id].parent].hooks[2].Name
                                        \o <<spans[id].type>> \o spans[id].name

----------------------------------------------------------------------------
WrapNow == Len(wraps') = Len(wraps) + 1

(* C13: Wrap keeps the processor map's set of operation names and replaces *)
(* every entry by its wrapped handler: the given middlewares, in declared  *)
(* order, around the handler the entry held before.                        *)
C13_WrapKeepsNames ==
    [][ WrapNow =>
           LET ms == Last(wraps')
           IN  /\ DOMAIN procMap' = DOMAIN procMap
               /\ \A n \in DOMAIN procMap :
                     /\ procMap'[n].orig = procMap[n].orig
                     /\ Len(procMap'[n].chain) = Len(ms) + Len(procMap[n].chain)
                     /\ \A i \in 1..Len(ms) : procMap'[n].chain[i].mw = ms[i]
                     /\ \A i \in 1..Len(procMap[n].chain) :
                           procMap'[n].chain[Len(ms) + i] = procMap[n].chain[i]
      ]_vars

C13_Witness ==
    /\ DOMAIN procMap = OpNames
    /\ Len(wraps) = 2
    /\ Len(wraps[1]) = 1 /\ Len(wraps[2]) = 2
    /\ \A n \in OpNames : Len(procMap[n].chain) = 3

(* C14: every wrapper in the entry of operation n was built by a           *)
(* middleware called with name n and sits around n's own original handler; *)
(* a call of n therefore only enters wrappers and the handler of n.        *)
C14_WrapPerOperation ==
    /\ \A n \in DOMAIN procMap :
          /\ procMap[n].orig = n
          /\ \A i \in 1..Len(procMap[n].chain) : procMap[n].chain[i].name = n
    /\ \A i \in 1..Len(call.log) : call.log[i].name = call.name

C14_Witness ==
    /\ DOMAIN procMap = OpNames
    /\ call.done
    /\ Len(call.log) >= 3
    /\ \A n \in OpNames : Len(procMap[n].chain) >= 2

(* C16: Wrap with no middlewares leaves every entry of the processor map   *)
(* as the handler it was.                                                  *)
C16_WrapNothing ==
    [][ (WrapNow /\ Last(wraps') = <<>>) => procMap' = procMap ]_vars

C16_Witness ==
    /\ Len(wraps) = 1
    /\ wraps[1] = <<>>
    /\ DOMAIN procMap = OpNames
    /\ call.done
    /\ call.log = <<[mw |-> "original", name |-> call.name]>>

(* the middleware list of one Wrap call that stands for the Wrap calls ws, *)
(* made in that order: the lists of later calls come first                *)
RECURSIVE Cumulative(_)
Cumulative(ws) == IF ws = <<>> THEN <<>> ELSE Cumulative(Tail(ws)) \o Head(ws)

(* C21: Wrap is cumulative: after Wrap(p, A...) and then Wrap(p, B...) a   *)
(* call of any operation enters B in declared order, then A in declared    *)
(* order, then the original handler, and the processor map is the one a    *)
(* single Wrap(p, B..., A...) of the unwrapped processor gives.            *)
C21_WrapCumulative ==
    /\ procMap = WrapRange(NewProcessor(DOMAIN procMap), DOMAIN procMap,
                           Cumulative(wraps))
    /\ call # NoCall =>
          /\ IsPrefix(call.log, DeclaredOrder(Cumulative(wraps), call.name))
          /\ call.done => call.log = DeclaredOrder(Cumulative(wraps), call.name)

C21_Witness ==
    /\ Len(wraps) = 2
    /\ wraps[1] = <<"A", "C">>
    /\ wraps[2] = <<"B", "A">>
    /\ call.done
    /\ call.log = DeclaredOrder(<<"B", "A", "A", "C">>, call.name)

----------------------------------------------------------------------------
CmdBeforeNow(w) ==
    /\ cmd[w].phase = "none"
    /\ cmd'[w].phase \in {"before", "after"}
    /\ cmd'[w].kind = "cmd"

CmdAfterNow(w) ==
    /\ cmd[w].phase = "before"
    /\ cmd[w].kind = "cmd"
    /\ cmd'[w].phase = "after"

(* C15: a single command under a context carrying a span creates exactly   *)
(* one client child span named <ClientName>.<command name>; AfterProcess   *)
(* ends that child, and no other span, with the command's own error.       *)
C15_OneSpanPerCommand ==
    [][ \A w \in Workers :
          /\ (CmdBeforeNow(w) /\ CarriesSpan(clients[w].ctx)) =>
                /\ Len(spans') = Len(spans) + 1
                /\ Last(spans').name = <<factory.name, cmd'[w].name>>
                /\ Last(spans').type = "client"
                /\ Last(spans').stops = <<>>
                /\ GetActiveSpan(cmd'[w].ctx) = Len(spans')
                /\ \A id \in 1..Len(spans) : spans'[id] = spans[id]
          /\ (CmdAfterNow(w) /\ HasCommandSpan(w)) =>
                /\ Len(spans') = Len(spans)
                /\ spans'[CommandSpan(w)].stops = <<cmd'[w].errs[1]>>
                /\ \A id \in 1..Len(spans) :
                      id # CommandSpan(w) => spans'[id] = spans[id]
      ]_vars

C15_Witness ==
    \E w \in Workers :
        /\ HasCommandSpan(w)
        /\ cmd[w].phase = "after" /\ cmd[w].kind = "cmd"
        /\ cmd[w].errs = <<Err("e1")>>
        /\ spans[CommandSpan(w)].name = <<factory.name, cmd[w].name>>
        /\ spans[CommandSpan(w)].stops = <<Err("e1")>>
        /\ spans[spans[CommandSpan(w)].parent].stops = <<>>

BeforeNow(w) == cmd[w].phase = "none" /\ cmd'[w].phase # "none"

AfterNow(w) == cmd[w].phase = "before" /\ cmd'[w].phase = "after"

(* C17: the new child's parent is the context's active span if there is    *)
(* one, else its server span; with neither, Before creates no span and     *)
(* hands the context back as it was, and After stops nothing and returns   *)
(* nil.                                                                    *)
C17_ParentChoice ==
    [][ \A w \in Workers :
          /\ BeforeNow(w) =>
                LET c == clients[w].ctx
                IN  IF GetActiveSpan(c) # 0
                    THEN CreatedNow /\ Last(spans').parent = GetActiveSpan(c)
                    ELSE IF GetServerSpan(c) # 0
                    THEN CreatedNow /\ Last(spans').parent = GetServerSpan(c)
                    ELSE spans' = spans /\ cmd'[w].ctx = c
          /\ (AfterNow(w) /\ ~CarriesSpan(cmd[w].ctx)) =>
                /\ spans' = spans
                /\ histogram' = histogram
                /\ counter' = counter
                /\ cmd'[w].ret = Nil
      ]_vars

C17_Witness ==
    \E w \in Workers :
        /\ HasCommandSpan(w)
        /\ GetActiveSpan(clients[w].ctx) # 0
        /\ GetServerSpan(clients[w].ctx) # 0
        /\ spans[CommandSpan(w)].parent = GetActiveSpan(clients[w].ctx)
        /\ spans[CommandSpan(w)].parent # GetServerSpan(clients[w].ctx)

C17_WitnessNoSpan ==
    \E w \in Workers :
        /\ cmd[w].phase = "after"
        /\ clients[w].ctx = EmptyCtx
        /\ cmd[w].ctx = EmptyCtx
        /\ spans # <<>>

----------------------------------------------------------------------------
(* C18: while the next endpoint runs, the server span exists, is the       *)
(* server span of the context next was called with, and has not been       *)
(* stopped; it is stopped once next has returned, and no server span       *)
(* exists before the endpoint is entered.                                  *)
C18_SpanBracketsNext ==
    \A w \in Workers :
        /\ pc[w] = "idle" =>
              /\ deferred[w].span = 0
              /\ \A id \in 1..Len(spans) :
                    ~(spans[id].origin = "http" /\ spans[id].owner = w)
        /\ pc[w] = "handling" =>
              /\ deferred[w].span \in 1..Len(spans)
              /\ spans[deferred[w].span].type = "server"
              /\ spans[deferred[w].span].owner = w
              /\ GetServerSpan(ctx[w]) = deferred[w].span
              /\ spans[deferred[w].span].stops = <<>>
        /\ pc[w] = "done" =>
              /\ Len(spans[deferred[w].span].stops) = 1
              /\ GetServerSpan(ctx[w]) = deferred[w].span

C18_Witness ==
    \E w \in Workers :
        /\ pc[w] = "handling"
        /\ cmd[w].phase = "before"
        /\ HasCommandSpan(w)
        /\ spans[CommandSpan(w)].parent = deferred[w].span
        /\ spans[deferred[w].span].stops = <<>>

====
